---- MODULE Spec2Model ----
(***************************************************************************)
(* Model of the Users and Journal clients of the SDK (src/src/users.ts,    *)
(* src/src/journal.ts).  Every public method builds one request, awaits    *)
(* fetch, checks response.ok, and either parses the body and returns it,   *)
(* or parses the error body and throws Errors.HandleError(message,status). *)
(*                                                                         *)
(* Encoding of JavaScript values:                                          *)
(*  - a string that ends up in a URL path is the sequence of its           *)
(*    '/'-separated segments: "users" is <<"users">>, "a/b" is             *)
(*    <<"a","b">>, "" is <<"">>, "/password/reset" is                      *)
(*    <<"","password","reset">>;  `${a}/${b}` is a \o b;                   *)
(*  - an object is a record, an absent property is an absent field;        *)
(*  - JSON text is [json |-> v] for the text that parses to v and          *)
(*    [raw |-> s] for text that is not JSON.                               *)
(***************************************************************************)
EXTENDS Integers, Sequences, FiniteSets, TLC

VARIABLES users, journal, calls

vars == <<users, journal, calls>>

(***************************************************************************)
(* Bounds.                                                                 *)
(***************************************************************************)
MaxCalls == 2

Slots == 1..MaxCalls

(***************************************************************************)
(* JavaScript primitives used by the code.                                 *)
(***************************************************************************)
\* the value `undefined` where a string is expected
Undefined == "<undefined>"

\* String(v) inside a template literal: `${undefined}` is "undefined"
TemplateString(v) == IF v = Undefined THEN "undefined" ELSE v

\* JSON.stringify(obj): the JSON text of obj.  A property whose value is
\* undefined is an absent field of the record, and is absent from the text
JSONStringify(obj) == [json |-> obj]

JsonNull == [jsonNull |-> TRUE]

SyntaxError == [name |-> "SyntaxError", message |-> "Unexpected token in JSON"]

NullTypeError ==
  [name |-> "TypeError", message |-> "Cannot read properties of null"]

InvalidURL == [name |-> "TypeError", message |-> "Invalid URL"]

\* Response.json(): parse the body text; not-JSON text rejects
JsonParse(text) ==
  IF "json" \in DOMAIN text
  THEN [ok |-> TRUE, value |-> text.json]
  ELSE [ok |-> FALSE, error |-> SyntaxError]

\* a success test that lets client errors through
ResponseOkBelow500(status) == status >= 200 /\ status <= 499

\* Response.ok
ResponseOk(status) == status >= 200 /\ status <= 299

(***************************************************************************)
(* URLs.  A URL string is [host, segs, slash]: "http://<host>/<segs>" with *)
(* a trailing '/' when slash; the empty string has host "".                *)
(***************************************************************************)
EmptyString == [host |-> "", segs |-> <<>>, slash |-> FALSE]

\* new URL(s): throws on a string that is not an absolute URL
URLValid(s) == s.host # ""

\* new URL(s) for a valid s: "http://h" has the path "/"
NewURL(s) ==
  [host |-> s.host, segs |-> s.segs, slash |-> s.slash \/ s.segs = <<>>]

Front(s) == SubSeq(s, 1, Len(s) - 1)

\* removal of "." and ".." segments while the path is parsed
RECURSIVE RemoveDots(_, _)
RemoveDots(done, rest) ==
  IF rest = <<>> THEN done
  ELSE IF Head(rest) = ".." THEN
         RemoveDots(IF done = <<>> THEN done ELSE Front(done), Tail(rest))
  ELSE IF Head(rest) = "." THEN RemoveDots(done, Tail(rest))
  ELSE RemoveDots(Append(done, Head(rest)), Tail(rest))

\* new URL(relative, base).toString(): a reference starting with '/'
\* replaces the whole path of the base, any other one replaces the last
\* segment of the base path
ResolveURL(rel, query, base) ==
  LET dir == IF base.slash THEN base.segs ELSE Front(base.segs)
      abs == Head(rel) = ""
      raw == IF abs THEN Tail(rel) ELSE dir \o rel
  IN  [host |-> base.host, path |-> RemoveDots(<<>>, raw), query |-> query]

\* Object.entries(queryParams).map(([k, v]) => [k, String(v)])
StringParams(queryParams) ==
  [i \in 1..Len(queryParams) |->
     <<queryParams[i][1], ToString(queryParams[i][2])>>]

\* new URLSearchParams(stringParams).toString(): "k=v&k=v"
URLSearchParams(stringParams) ==
  [i \in 1..Len(stringParams) |->
     <<stringParams[i][1], "=", stringParams[i][2]>>]

(***************************************************************************)
(* Constructors.                                                           *)
(***************************************************************************)
\* new Users({usersUrl, clientsUrl}): clientsUrl absent gives new URL("")
UsersConstructor(config) ==
  LET clientsUrl == IF "clientsUrl" \in DOMAIN config
                    THEN config.clientsUrl ELSE EmptyString
  IN  IF URLValid(config.usersUrl) /\ URLValid(clientsUrl)
      THEN [constructed |-> TRUE,
            given |-> DOMAIN config,
            usersUrl |-> NewURL(config.usersUrl),
            clientsUrl |-> NewURL(clientsUrl),
            contentType |-> "application/json",
            usersEndpoint |-> <<"users">>,
            searchEndpoint |-> <<"search">>]
      ELSE [constructed |-> FALSE,
            given |-> DOMAIN config,
            thrown |-> InvalidURL]

\* new Journal(journalsUrl)
JournalConstructor(journalsUrl) ==
  IF URLValid(journalsUrl)
  THEN [constructed |-> TRUE,
        journalsUrl |-> NewURL(journalsUrl),
        contentType |-> "application/json",
        journalsEndpoint |-> <<"journal">>]
  ELSE [constructed |-> FALSE, thrown |-> InvalidURL]

(***************************************************************************)
(* Request construction, one definition per public method.  A request is   *)
(* the RequestInit options (method, headers, optional body) together with  *)
(* the URL handed to fetch.                                                *)
(***************************************************************************)
\* a credential sent without its scheme
BearerBare(token) == <<"", TemplateString(token)>>

\* `Bearer ${token}`
Bearer(token) == <<"Bearer ", TemplateString(token)>>

\* `${user.id}` in a path: an absent id reads "undefined"
UserIdPath(user) ==
  IF "id" \in DOMAIN user THEN user.id ELSE <<"undefined">>

\* a string-valued argument, undefined when omitted
Prop(obj, field) == IF field \in DOMAIN obj THEN obj[field] ELSE Undefined

EmptyObject == [k \in {} |-> k]

\* the object literal { <to>: obj.<from> }
Only(obj, from, to) ==
  IF from \in DOMAIN obj THEN [k \in {to} |-> obj[from]] ELSE EmptyObject

\* the object literal { username: user.credentials?.username }
OnlyUsername(user) ==
  IF "credentials" \in DOMAIN user
  THEN Only(user.credentials, "username", "username") ELSE EmptyObject

NoQuery == <<>>

\* `?${new URLSearchParams(stringParams).toString()}`
QueryOf(queryParams) ==
  <<<<"?">>>> \o URLSearchParams(StringParams(queryParams))

JsonAuthHeaders(u, token) ==
  [ContentType |-> u.contentType, Authorization |-> Bearer(token)]

CreateRequest(u, a) ==
  [method |-> "POST",
   headers |-> JsonAuthHeaders(u, Prop(a, "token")),
   body |-> JSONStringify(a.user),
   url |-> ResolveURL(u.usersEndpoint, NoQuery, u.usersUrl)]

CreateTokenRequest(u, a) ==
  [method |-> "POST",
   headers |-> [ContentType |-> u.contentType],
   body |-> JSONStringify(a.login),
   url |-> ResolveURL(u.usersEndpoint \o <<"tokens", "issue">>, NoQuery,
                      u.usersUrl)]

RefreshTokenRequest(u, a) ==
  [method |-> "POST",
   headers |-> JsonAuthHeaders(u, a.refreshToken),
   url |-> ResolveURL(u.usersEndpoint \o <<"tokens", "refresh">>, NoQuery,
                      u.usersUrl)]

UpdateRequest(u, a) ==
  [method |-> "PATCH",
   headers |-> JsonAuthHeaders(u, a.token),
   body |-> JSONStringify(a.user),
   url |-> ResolveURL(u.usersEndpoint \o UserIdPath(a.user), NoQuery,
                      u.usersUrl)]

\* an email update that sends the whole user object
UpdateEmailRequestWholeUser(u, a) ==
  [method |-> "PATCH",
   headers |-> JsonAuthHeaders(u, a.token),
   body |-> JSONStringify(a.user),
   url |-> ResolveURL(u.usersEndpoint \o UserIdPath(a.user) \o <<"email">>,
                      NoQuery, u.usersUrl)]

\* an email update sent to the path of the plain update
UpdateEmailRequestOnUserPath(u, a) ==
  [method |-> "PATCH",
   headers |-> JsonAuthHeaders(u, a.token),
   body |-> JSONStringify(Only(a.user, "email", "email")),
   url |-> ResolveURL(u.usersEndpoint \o UserIdPath(a.user),
                      NoQuery, u.usersUrl)]

UpdateEmailRequest(u, a) ==
  [method |-> "PATCH",
   headers |-> JsonAuthHeaders(u, a.token),
   body |-> JSONStringify(Only(a.user, "email", "email")),
   url |-> ResolveURL(u.usersEndpoint \o UserIdPath(a.user) \o <<"email">>,
                      NoQuery, u.usersUrl)]

UpdateUsernameRequest(u, a) ==
  [method |-> "PATCH",
   headers |-> JsonAuthHeaders(u, a.token),
   body |-> JSONStringify(OnlyUsername(a.user)),
   url |-> ResolveURL(u.usersEndpoint \o UserIdPath(a.user) \o <<"username">>,
                      NoQuery, u.usersUrl)]

UpdateProfilePictureRequest(u, a) ==
  [method |-> "PATCH",
   headers |-> JsonAuthHeaders(u, a.token),
   body |-> JSONStringify(
              Only(a.user, "profile_picture", "profile_picture")),
   url |-> ResolveURL(u.usersEndpoint \o UserIdPath(a.user) \o <<"picture">>,
                      NoQuery, u.usersUrl)]

UpdateUserTagsRequest(u, a) ==
  [method |-> "PATCH",
   headers |-> JsonAuthHeaders(u, a.token),
   body |-> JSONStringify(a.user),
   url |-> ResolveURL(u.usersEndpoint \o UserIdPath(a.user) \o <<"tags">>,
                      NoQuery, u.usersUrl)]

UpdateUserPasswordRequest(u, a) ==
  [method |-> "PATCH",
   headers |-> JsonAuthHeaders(u, a.token),
   body |-> JSONStringify(
              [old_secret |-> a.oldSecret, new_secret |-> a.newSecret]),
   url |-> ResolveURL(u.usersEndpoint \o <<"secret">>, NoQuery, u.usersUrl)]

UpdateUserRoleRequest(u, a) ==
  [method |-> "PATCH",
   headers |-> JsonAuthHeaders(u, a.token),
   body |-> JSONStringify(a.user),
   url |-> ResolveURL(u.usersEndpoint \o UserIdPath(a.user) \o <<"role">>,
                      NoQuery, u.usersUrl)]

UserRequest(u, a) ==
  [method |-> "GET",
   headers |-> JsonAuthHeaders(u, a.token),
   url |-> ResolveURL(u.usersEndpoint \o a.userId, NoQuery, u.usersUrl)]

UserProfileRequest(u, a) ==
  [method |-> "GET",
   headers |-> JsonAuthHeaders(u, a.token),
   url |-> ResolveURL(u.usersEndpoint \o <<"profile">>, NoQuery, u.usersUrl)]

UsersRequest(u, a) ==
  [method |-> "GET",
   headers |-> JsonAuthHeaders(u, a.token),
   url |-> ResolveURL(u.usersEndpoint, QueryOf(a.queryParams), u.usersUrl)]

\* a disable sent with the verb of the updates
DisableRequestAsPatch(u, a) ==
  [method |-> "PATCH",
   headers |-> JsonAuthHeaders(u, a.token),
   body |-> JSONStringify(a.user),
   url |-> ResolveURL(u.usersEndpoint \o UserIdPath(a.user) \o <<"disable">>,
                      NoQuery, u.usersUrl)]

DisableRequest(u, a) ==
  [method |-> "POST",
   headers |-> JsonAuthHeaders(u, a.token),
   body |-> JSONStringify(a.user),
   url |-> ResolveURL(u.usersEndpoint \o UserIdPath(a.user) \o <<"disable">>,
                      NoQuery, u.usersUrl)]

EnableRequest(u, a) ==
  [method |-> "POST",
   headers |-> JsonAuthHeaders(u, a.token),
   body |-> JSONStringify(a.user),
   url |-> ResolveURL(u.usersEndpoint \o UserIdPath(a.user) \o <<"enable">>,
                      NoQuery, u.usersUrl)]

ListUserGroupsRequest(u, a) ==
  [method |-> "GET",
   headers |-> JsonAuthHeaders(u, a.token),
   url |-> ResolveURL(
             a.domainId \o u.usersEndpoint \o a.userId \o <<"groups">>,
             QueryOf(a.queryParams), u.usersUrl)]

\* a clients listing resolved against the users service
ListUserClientsRequestOnUsersUrl(u, a) ==
  [method |-> "GET",
   headers |-> JsonAuthHeaders(u, a.token),
   url |-> ResolveURL(
             a.domainId \o u.usersEndpoint \o a.userId \o <<"clients">>,
             QueryOf(a.queryParams), u.usersUrl)]

ListUserClientsRequest(u, a) ==
  [method |-> "GET",
   headers |-> JsonAuthHeaders(u, a.token),
   url |-> ResolveURL(
             a.domainId \o u.usersEndpoint \o a.userId \o <<"clients">>,
             QueryOf(a.queryParams), u.clientsUrl)]

ListUserChannelsRequest(u, a) ==
  [method |-> "GET",
   headers |-> JsonAuthHeaders(u, a.token),
   url |-> ResolveURL(
             a.domainId \o u.usersEndpoint \o a.userId \o <<"channels">>,
             QueryOf(a.queryParams), u.clientsUrl)]

ResetPasswordRequestRequest(u, a) ==
  [method |-> "POST",
   headers |-> [ContentType |-> u.contentType, Referer |-> a.hostUrl],
   body |-> JSONStringify([email |-> a.email]),
   url |-> ResolveURL(<<"", "password", "reset-request">>, NoQuery,
                      u.usersUrl)]

ResetPasswordRequest(u, a) ==
  [method |-> "PUT",
   headers |-> [ContentType |-> u.contentType],
   body |-> JSONStringify([token |-> a.token, password |-> a.password,
                           confirm_password |-> a.confPass]),
   url |-> ResolveURL(<<"", "password", "reset">>, NoQuery, u.usersUrl)]

DeleteUserRequest(u, a) ==
  [method |-> "DELETE",
   headers |-> [Authorization |-> Bearer(a.token)],
   url |-> ResolveURL(u.usersEndpoint \o a.userId, NoQuery, u.usersUrl)]

SearchUsersRequest(u, a) ==
  [method |-> "GET",
   headers |-> JsonAuthHeaders(u, a.token),
   url |-> ResolveURL(u.usersEndpoint \o u.searchEndpoint,
                      QueryOf(a.queryParams), u.usersUrl)]

\* a journal request with the entity id before the entity type
JournalRequestIdFirst(j, a) ==
  [method |-> "GET",
   headers |-> JsonAuthHeaders(j, a.token),
   url |-> ResolveURL(
             a.domainId \o j.journalsEndpoint \o a.entityId \o a.entityType,
             QueryOf(a.queryParams), j.journalsUrl)]

JournalRequest(j, a) ==
  [method |-> "GET",
   headers |-> JsonAuthHeaders(j, a.token),
   url |-> ResolveURL(
             a.domainId \o j.journalsEndpoint \o a.entityType \o a.entityId,
             QueryOf(a.queryParams), j.journalsUrl)]

UsersMethods ==
  {"Create", "CreateToken", "RefreshToken", "Update", "UpdateEmail",
   "UpdateUsername", "UpdateProfilePicture", "UpdateUserTags",
   "UpdateUserPassword", "UpdateUserRole", "User", "UserProfile", "Users",
   "Disable", "Enable", "ListUserGroups", "ListUserClients",
   "ListUserChannels", "ResetPasswordRequest", "ResetPassword",
   "DeleteUser", "SearchUsers"}

JournalMethods == {"Journal"}

Methods == UsersMethods \cup JournalMethods

\* the request the method `api` hands to fetch
BuildRequest(api, a, u, j) ==
  CASE api = "Create" -> CreateRequest(u, a)
    [] api = "CreateToken" -> CreateTokenRequest(u, a)
    [] api = "RefreshToken" -> RefreshTokenRequest(u, a)
    [] api = "Update" -> UpdateRequest(u, a)
    [] api = "UpdateEmail" -> UpdateEmailRequest(u, a)
    [] api = "UpdateUsername" -> UpdateUsernameRequest(u, a)
    [] api = "UpdateProfilePicture" -> UpdateProfilePictureRequest(u, a)
    [] api = "UpdateUserTags" -> UpdateUserTagsRequest(u, a)
    [] api = "UpdateUserPassword" -> UpdateUserPasswordRequest(u, a)
    [] api = "UpdateUserRole" -> UpdateUserRoleRequest(u, a)
    [] api = "User" -> UserRequest(u, a)
    [] api = "UserProfile" -> UserProfileRequest(u, a)
    [] api = "Users" -> UsersRequest(u, a)
    [] api = "Disable" -> DisableRequest(u, a)
    [] api = "Enable" -> EnableRequest(u, a)
    [] api = "ListUserGroups" -> ListUserGroupsRequest(u, a)
    [] api = "ListUserClients" -> ListUserClientsRequest(u, a)
    [] api = "ListUserChannels" -> ListUserChannelsRequest(u, a)
    [] api = "ResetPasswordRequest" -> ResetPasswordRequestRequest(u, a)
    [] api = "ResetPassword" -> ResetPasswordRequest(u, a)
    [] api = "DeleteUser" -> DeleteUserRequest(u, a)
    [] api = "SearchUsers" -> SearchUsersRequest(u, a)
    [] api = "Journal" -> JournalRequest(j, a)

(***************************************************************************)
(* Response handling, shared by every method:                              *)
(*   try { const response = await fetch(url, options);                     *)
(*         if (!response.ok) { const errorRes = await response.json();     *)
(*           throw Errors.HandleError(errorRes.message, response.status) } *)
(*         return await response.json() }                                  *)
(*   catch (error) { throw error }                                         *)
(* ResetPasswordRequest, ResetPassword and DeleteUser return a fixed       *)
(* Response object on success instead of reading the body.                 *)
(***************************************************************************)
\* Errors.HandleError(message, status): the SDK's error value
HandleError(message, status) ==
  [name |-> "SDKError", message |-> message, status |-> status]

\* a catch block that wraps what it caught in the SDK's error type
CatchWrapped(error) == HandleError(error.message, 0)

\* catch (error) { throw error; }
Catch(error) == error

FixedResponseMethods == {"ResetPasswordRequest", "ResetPassword", "DeleteUser"}

\* the message of the Response object built on success
SuccessMessage(api) ==
  CASE api = "ResetPasswordRequest" -> "Email with reset link sent successfully"
    [] api = "ResetPassword" -> "Password reset successfully"
    [] api = "DeleteUser" -> "User deleted successfully"

\* a Response object whose status is written as a constant
FixedResponseAlways200(api, response) ==
  [status |-> 200, message |-> SuccessMessage(api)]

\* { status: response.status, message: "..." }
FixedResponse(api, response) ==
  [status |-> response.status, message |-> SuccessMessage(api)]

\* errorRes.message: reading a property of null throws, an absent property
\* is undefined
ErrorOf(errorRes, status) ==
  IF "jsonNull" \in DOMAIN errorRes THEN NullTypeError
  ELSE HandleError(Prop(errorRes, "message"), status)

Extend(r, f, v) == [k \in DOMAIN r \cup {f} |-> IF k = f THEN v ELSE r[k]]

Resolved(value) == [kind |-> "resolved", value |-> value]

Rejected(error) == [kind |-> "rejected", error |-> error]

\* a promise that is settled a second time by a timer of the SDK
SettleTwice(call, outcome) ==
  [Extend(call, "outcome", outcome) EXCEPT
     !.pc = "done", !.settled = call.settled + 2]

\* the async function's promise settles: return or throw
Settle(call, outcome) ==
  [Extend(call, "outcome", outcome) EXCEPT
     !.pc = "done", !.settled = call.settled + 1]

IdleCall == [pc |-> "idle", sent |-> 0, settled |-> 0]

ClientReady(api) ==
  IF api \in JournalMethods THEN journal.constructed ELSE users.constructed

\* a method that builds its URL by rewriting the client's shared base URL
InvokeRewritingBase(c, api, a) ==
  /\ calls[c].pc = "idle"
  /\ ClientReady(api)
  /\ LET request == BuildRequest(api, a, users, journal)
     IN  /\ calls' = [calls EXCEPT ![c] =
               [pc |-> "fetch", api |-> api, args |-> a, request |-> request,
                sent |-> calls[c].sent + 1, settled |-> 0]]
         /\ IF api \in JournalMethods
            THEN /\ journal' = [journal EXCEPT
                                 !.journalsUrl.segs = request.url.path]
                 /\ UNCHANGED users
            ELSE /\ users' = [users EXCEPT
                               !.usersUrl.segs = request.url.path]
                 /\ UNCHANGED journal

\* a public method is called: options and URL are built and fetch is called
Invoke(c, api, a) ==
  /\ calls[c].pc = "idle"
  /\ ClientReady(api)
  /\ calls' = [calls EXCEPT ![c] =
       [pc |-> "fetch", api |-> api, args |-> a,
        request |-> BuildRequest(api, a, users, journal),
        sent |-> calls[c].sent + 1, settled |-> 0]]
  /\ UNCHANGED <<users, journal>>

\* await fetch(...) resolves with a response
FetchResolve(c, response) ==
  /\ calls[c].pc = "fetch"
  /\ LET call == Extend(calls[c], "response", response)
     IN  calls' = [calls EXCEPT ![c] =
           IF ~ResponseOk(response.status)
           THEN [call EXCEPT !.pc = "json"]
           ELSE IF call.api \in FixedResponseMethods
           THEN Settle(call, Resolved(FixedResponse(call.api, response)))
           ELSE [call EXCEPT !.pc = "json"]]
  /\ UNCHANGED <<users, journal>>

\* a fetch that is sent again after a network failure
FetchRejectRetried(c, error) ==
  /\ calls[c].pc = "fetch"
  /\ calls' = [calls EXCEPT ![c] =
       IF calls[c].sent < 2
       THEN [calls[c] EXCEPT !.sent = calls[c].sent + 1]
       ELSE Settle(Extend(calls[c], "raised", error), Rejected(Catch(error)))]
  /\ UNCHANGED <<users, journal>>

\* await fetch(...) rejects (network failure, abort by the transport)
FetchReject(c, error) ==
  /\ calls[c].pc = "fetch"
  /\ calls' = [calls EXCEPT ![c] =
       Settle(Extend(calls[c], "raised", error), Rejected(Catch(error)))]
  /\ UNCHANGED <<users, journal>>

\* a result cache keyed by the request: a call finds the outcome of an
\* earlier identical call and returns it instead of its own
JsonSettleCached(c) ==
  /\ calls[c].pc = "json"
  /\ LET call == calls[c]
         parsed == JsonParse(call.response.body)
         thrown == IF parsed.ok
                   THEN ErrorOf(parsed.value, call.response.status)
                   ELSE parsed.error
         earlier == {d \in DOMAIN calls :
                       /\ d # c /\ calls[d].pc = "done"
                       /\ calls[d].request = call.request}
     IN  calls' = [calls EXCEPT ![c] =
           IF earlier # {}
           THEN Settle(call, calls[CHOOSE d \in earlier : TRUE].outcome)
           ELSE IF ~parsed.ok \/ ~ResponseOk(call.response.status)
           THEN Settle(Extend(call, "raised", thrown), Rejected(Catch(thrown)))
           ELSE Settle(call, Resolved(parsed.value))]
  /\ UNCHANGED <<users, journal>>

\* a success branch that returns the body text instead of parsing it
JsonSettleUnparsed(c) ==
  /\ calls[c].pc = "json"
  /\ LET call == calls[c]
         parsed == JsonParse(call.response.body)
         thrown == IF parsed.ok
                   THEN ErrorOf(parsed.value, call.response.status)
                   ELSE parsed.error
     IN  calls' = [calls EXCEPT ![c] =
           IF ~ResponseOk(call.response.status)
           THEN Settle(Extend(call, "raised", thrown), Rejected(Catch(thrown)))
           ELSE Settle(call, Resolved(call.response.body))]
  /\ UNCHANGED <<users, journal>>

\* await response.json() settles after the whole body was read
JsonSettle(c) ==
  /\ calls[c].pc = "json"
  /\ LET call == calls[c]
         parsed == JsonParse(call.response.body)
         thrown == IF parsed.ok
                   THEN ErrorOf(parsed.value, call.response.status)
                   ELSE parsed.error
     IN  calls' = [calls EXCEPT ![c] =
           IF ~parsed.ok \/ ~ResponseOk(call.response.status)
           THEN Settle(Extend(call, "raised", thrown), Rejected(Catch(thrown)))
           ELSE Settle(call, Resolved(parsed.value))]
  /\ UNCHANGED <<users, journal>>

\* await response.json() rejects because reading the body failed
JsonReject(c, error) ==
  /\ calls[c].pc = "json"
  /\ calls' = [calls EXCEPT ![c] =
       Settle(Extend(calls[c], "raised", error), Rejected(Catch(error)))]
  /\ UNCHANGED <<users, journal>>

\* the caller's then/catch handler has run; nothing refers to the call
Release(c) ==
  /\ calls[c].pc = "done"
  /\ calls' = [calls EXCEPT ![c] = IdleCall]
  /\ UNCHANGED <<users, journal>>

(***************************************************************************)
(* Inputs.                                                                 *)
(***************************************************************************)
UrlString(host, segs, slash) == [host |-> host, segs |-> segs, slash |-> slash]

UsersUrlStrings ==
  {UrlString("users.example", <<>>, FALSE),
   UrlString("gateway.example", <<"api", "v1">>, TRUE)}

ClientsUrlStrings ==
  {UrlString("clients.example", <<>>, FALSE),
   UrlString("gateway.example", <<"api", "v1">>, TRUE)}

JournalsUrlStrings ==
  {UrlString("journal.example", <<>>, FALSE),
   UrlString("gateway.example", <<"api", "v1">>, FALSE)}

UsersConfigs ==
  {[usersUrl |-> s] : s \in UsersUrlStrings} \cup
  {[usersUrl |-> s, clientsUrl |-> t] :
     s \in UsersUrlStrings, t \in ClientsUrlStrings}

Tokens == {"tokenA", "tokenB"}

UserIds == {<<"u1">>, <<"u2">>}

DomainIds == {<<"d1">>}

EntityTypes == {<<"client">>, <<"group">>}

QueryParams == {<<>>, <<<<"offset", 0>>, <<"limit", 10>>>>}

FullUser(id) ==
  [id |-> id, email |-> "jd@example.com", first_name |-> "John",
   credentials |-> [username |-> "jd", secret |-> "12345678"],
   role |-> "admin", tags |-> <<"back", "end">>,
   profile_picture |-> "https://pics.example/jd.jpg"]

NewUser ==
  [email |-> "jd@example.com", first_name |-> "John",
   credentials |-> [username |-> "jd", secret |-> "12345678"]]

\* a user object that names the user and nothing else
SparseUser == [id |-> <<"u1">>]

Logins == {[identity |-> "admin", secret |-> "12345678"]}

\* the argument lists of method api over ids I, domains D, tokens T and
\* query parameters Q
ArgsOf(api, I, D, T, Q) ==
  CASE api = "Create" ->
         {[user |-> NewUser]} \cup {[user |-> NewUser, token |-> t] : t \in T}
    [] api = "CreateToken" -> {[login |-> l] : l \in Logins}
    [] api = "RefreshToken" -> {[refreshToken |-> t] : t \in T}
    [] api \in {"Update", "UpdateEmail", "UpdateUsername",
                "UpdateProfilePicture", "UpdateUserTags", "UpdateUserRole",
                "Disable", "Enable"} ->
         {[user |-> FullUser(i), token |-> t] : i \in I, t \in T} \cup
         {[user |-> SparseUser, token |-> t] : t \in T}
    [] api = "UpdateUserPassword" ->
         {[oldSecret |-> "12345678", newSecret |-> "87654321", token |-> t] :
            t \in T}
    [] api \in {"User", "DeleteUser"} ->
         {[userId |-> i, token |-> t] : i \in I, t \in T}
    [] api = "UserProfile" -> {[token |-> t] : t \in T}
    [] api \in {"Users", "SearchUsers"} ->
         {[queryParams |-> q, token |-> t] : q \in Q, t \in T}
    [] api \in {"ListUserGroups", "ListUserClients", "ListUserChannels"} ->
         {[domainId |-> d, userId |-> i, queryParams |-> q, token |-> t] :
            d \in D, i \in I, q \in Q, t \in T}
    [] api = "ResetPasswordRequest" ->
         {[email |-> "jd@example.com", hostUrl |-> "https://ui.example"]}
    [] api = "ResetPassword" ->
         {[password |-> "87654321", confPass |-> "87654321", token |-> t] :
            t \in T}
    [] api = "Journal" ->
         {[entityType |-> e, entityId |-> i, domainId |-> d,
           queryParams |-> q, token |-> t] :
            e \in EntityTypes, i \in I, d \in D, q \in Q, t \in T}

Statuses == {200, 201, 404}

BodyTexts ==
  {[json |-> [message |-> "entity not found"]],
   [json |-> [first_name |-> "John"]],
   [json |-> JsonNull],
   [raw |-> "<html>Bad Gateway</html>"]}

Responses == {[status |-> st, body |-> b] : st \in Statuses, b \in BodyTexts}

NetErrors ==
  {[name |-> "TypeError", message |-> "fetch failed"],
   [name |-> "AbortError", message |-> "This operation was aborted"]}

BodyErrors == {[name |-> "TypeError", message |-> "terminated"]}

(***************************************************************************)
(* Awaited use: the caller awaits each call before making the next one.    *)
(* All methods, all argument lists, all responses.                         *)
(***************************************************************************)
Init ==
  /\ \E config \in UsersConfigs : users = UsersConstructor(config)
  /\ \E s \in JournalsUrlStrings : journal = JournalConstructor(s)
  /\ calls = [c \in Slots |-> IdleCall]

NoneInFlight == \A c \in Slots : calls[c].pc = "idle"

Next ==
  \E c \in Slots :
    \/ /\ NoneInFlight
       /\ \E api \in Methods :
            \E a \in ArgsOf(api, UserIds, DomainIds, Tokens, QueryParams) :
              Invoke(c, api, a)
    \/ \E response \in Responses : FetchResolve(c, response)
    \/ \E error \in NetErrors : FetchReject(c, error)
    \/ JsonSettle(c)
    \/ \E error \in BodyErrors : JsonReject(c, error)
    \/ Release(c)

Spec == Init /\ [][Next]_vars

(***************************************************************************)
(* Vocabulary of the properties.                                           *)
(***************************************************************************)
Done(c) == calls[c].pc = "done"

Issued(c) == calls[c].pc # "idle"

HasResponse(c) == "response" \in DOMAIN calls[c]

Is2xx(c) == calls[c].response.status \in 200..299

BodyIsJson(c) == "json" \in DOMAIN calls[c].response.body

\* reading the body failed in the transport
BodyReadFailed(c) ==
  "raised" \in DOMAIN calls[c] /\ calls[c].raised.message = "terminated"

IsSdkError(e) == e.name = "SDKError"

(***************************************************************************)
(* C1: whenever the response has a non-2xx status (and the transport       *)
(* delivered its body), the call rejects with the SDK error carrying the   *)
(* message of the error body and the HTTP status of the response.          *)
(***************************************************************************)
C1_NonOkRejectsWithSdkError ==
  \A c \in Slots :
    (Done(c) /\ HasResponse(c) /\ ~Is2xx(c) /\ ~BodyReadFailed(c)) =>
      /\ calls[c].outcome.kind = "rejected"
      /\ IsSdkError(calls[c].outcome.error)
      /\ calls[c].outcome.error.status = calls[c].response.status
      /\ (BodyIsJson(c) /\ "message" \in DOMAIN calls[c].response.body.json) =>
           calls[c].outcome.error.message = calls[c].response.body.json.message

(***************************************************************************)
(* C2: a failure that is not a non-2xx response (fetch rejecting, the body *)
(* read failing, the body not parsing as JSON) reaches the caller as the   *)
(* very error value that was raised, and the call does not resolve.        *)
(***************************************************************************)
C2_OtherFailuresPropagateUnchanged ==
  \A c \in Slots :
    (Done(c) /\ "raised" \in DOMAIN calls[c]
             /\ ~IsSdkError(calls[c].raised)) =>
      /\ calls[c].outcome.kind = "rejected"
      /\ calls[c].outcome.error = calls[c].raised
      /\ calls[c].raised \in NetErrors \cup BodyErrors
                              \cup {SyntaxError, NullTypeError}

C2_Witness ==
  \E c \in Slots :
    /\ Done(c) /\ HasResponse(c) /\ Is2xx(c) /\ ~BodyIsJson(c)
    /\ calls[c].outcome = [kind |-> "rejected", error |-> SyntaxError]

(***************************************************************************)
(* C3 as stated: on a 2xx response whose body is JSON, every method        *)
(* resolves with the parsed body.                                          *)
(***************************************************************************)
C3_Original_EveryMethodReturnsBody ==
  \A c \in Slots :
    (Done(c) /\ HasResponse(c) /\ Is2xx(c) /\ BodyIsJson(c)
             /\ ~BodyReadFailed(c)) =>
      calls[c].outcome =
        [kind |-> "resolved", value |-> calls[c].response.body.json]

\* the methods that answer with a fixed Response object
AnswersWithFixedResponse(c) ==
  calls[c].api \in {"ResetPasswordRequest", "ResetPassword", "DeleteUser"}

(***************************************************************************)
(* C3 amended: on a 2xx response whose body is read and is JSON, every     *)
(* method but ResetPasswordRequest, ResetPassword and DeleteUser resolves  *)
(* with the parsed body; these three resolve on any 2xx response without   *)
(* reading the body, and never with the parsed body.                       *)
(***************************************************************************)
C3_BodyMethodsReturnParsedBody ==
  \A c \in Slots :
    /\ (Done(c) /\ HasResponse(c) /\ Is2xx(c) /\ BodyIsJson(c)
          /\ ~BodyReadFailed(c) /\ ~AnswersWithFixedResponse(c)) =>
         calls[c].outcome =
           [kind |-> "resolved", value |-> calls[c].response.body.json]
    /\ (Issued(c) /\ HasResponse(c) /\ Is2xx(c)
          /\ AnswersWithFixedResponse(c)) =>
         /\ Done(c)
         /\ calls[c].outcome.kind = "resolved"
         /\ "status" \in DOMAIN calls[c].outcome.value

C3_Witness ==
  \E c \in Slots :
    /\ Done(c) /\ HasResponse(c) /\ calls[c].response.status = 201
    /\ calls[c].api = "Users"
    /\ calls[c].outcome =
         [kind |-> "resolved", value |-> [first_name |-> "John"]]

TakesToken(c) ==
  "token" \in DOMAIN calls[c].args \/ "refreshToken" \in DOMAIN calls[c].args

TokenPassed(c) ==
  IF "token" \in DOMAIN calls[c].args THEN calls[c].args.token
  ELSE calls[c].args.refreshToken

SendsBearer(c) ==
  /\ "Authorization" \in DOMAIN calls[c].request.headers
  /\ calls[c].request.headers.Authorization = <<"Bearer ", TokenPassed(c)>>

(***************************************************************************)
(* C5 as stated: every method that is passed a token sends it as           *)
(* 'Authorization: Bearer <token>'.                                        *)
(***************************************************************************)
C5_Original_EveryTokenIsBearer ==
  \A c \in Slots : (Issued(c) /\ TakesToken(c)) => SendsBearer(c)

(***************************************************************************)
(* C5 amended: every method that is passed a token, except ResetPassword,  *)
(* sends it as 'Authorization: Bearer <token>'; ResetPassword sends no     *)
(* Authorization header and carries the token in the 'token' field of its  *)
(* JSON body.                                                              *)
(***************************************************************************)
C5_TokenIsBearerExceptResetPassword ==
  \A c \in Slots :
    (Issued(c) /\ TakesToken(c)) =>
      IF calls[c].api = "ResetPassword"
      THEN /\ "Authorization" \notin DOMAIN calls[c].request.headers
           /\ calls[c].request.body.json.token = calls[c].args.token
      ELSE SendsBearer(c)

C5_Witness ==
  \E c \in Slots :
    /\ Issued(c) /\ calls[c].api = "RefreshToken"
    /\ calls[c].args.refreshToken = "tokenB"
    /\ calls[c].request.headers.Authorization = <<"Bearer ", "tokenB">>

(***************************************************************************)
(* C6: constructing Users with a valid usersUrl and no clientsUrl          *)
(* completes without throwing.                                             *)
(***************************************************************************)
C6_ClientsUrlOptional ==
  users.given = {"usersUrl"} => users.constructed

(***************************************************************************)
(* C7: the configuration of a constructed client never changes, whatever   *)
(* calls are made and however they end, and the client has no other field. *)
(***************************************************************************)
C7_ConfigurationFrozen ==
  /\ [](users.constructed =>
          DOMAIN users = {"constructed", "given", "usersUrl", "clientsUrl",
                          "contentType", "usersEndpoint", "searchEndpoint"})
  /\ [](journal.constructed =>
          DOMAIN journal = {"constructed", "journalsUrl", "contentType",
                            "journalsEndpoint"})
  /\ [][users' = users /\ journal' = journal]_vars

C7_Witness ==
  \E c \in Slots :
    /\ Done(c) /\ calls[c].api = "ListUserClients"
    /\ calls[c].outcome.kind = "rejected"
    /\ users.constructed /\ users.clientsUrl.host = "clients.example"

(***************************************************************************)
(* Concurrent use: up to MaxCalls calls in flight at once on the same      *)
(* clients, each answered by the transport on its own.                     *)
(***************************************************************************)
ConcInit ==
  /\ users = UsersConstructor(
               [usersUrl |-> UrlString("users.example", <<>>, FALSE),
                clientsUrl |-> UrlString("clients.example", <<>>, FALSE)])
  /\ journal = JournalConstructor(UrlString("journal.example", <<>>, FALSE))
  /\ calls = [c \in Slots |-> IdleCall]

ConcInvocations ==
  {<<"User", [userId |-> <<"u1">>, token |-> "tokenA"]>>,
   <<"User", [userId |-> <<"u2">>, token |-> "tokenB"]>>,
   <<"Users", [queryParams |-> <<>>, token |-> "tokenA"]>>,
   <<"DeleteUser", [userId |-> <<"u1">>, token |-> "tokenA"]>>,
   <<"Journal", [entityType |-> <<"client">>, entityId |-> <<"u1">>,
                 domainId |-> <<"d1">>, queryParams |-> <<>>,
                 token |-> "tokenA"]>>}

ConcResponses ==
  {[status |-> st, body |-> b] :
     st \in {200, 404},
     b \in {[json |-> [message |-> "entity not found"]],
            [raw |-> "<html>Bad Gateway</html>"]}}

ConcNetErrors == {[name |-> "TypeError", message |-> "fetch failed"]}

\* the transport settles what call c awaits
Transport(c) ==
  \/ \E response \in ConcResponses : FetchResolve(c, response)
  \/ \E error \in ConcNetErrors : FetchReject(c, error)
  \/ JsonSettle(c)
  \/ \E error \in BodyErrors : JsonReject(c, error)

ConcNext ==
  \E c \in Slots :
    \/ \E i \in ConcInvocations : Invoke(c, i[1], i[2])
    \/ Transport(c)

ConcSpec == ConcInit /\ [][ConcNext]_vars

\* the transport eventually settles every fetch and every body read
FairSpec == ConcSpec /\ \A c \in Slots : WF_vars(Transport(c))

\* what the transport did to call c: the response and the transport error
TransportEvents(c) ==
  <<IF HasResponse(c) THEN {calls[c].response} ELSE {},
    IF "raised" \in DOMAIN calls[c]
         /\ calls[c].raised \in ConcNetErrors \cup BodyErrors
    THEN {calls[c].raised} ELSE {}>>

\* the outcome of c is drawn from the response to c's own request
OutcomeFromOwnResponse(c) ==
  /\ calls[c].outcome.kind = "resolved" =>
       /\ HasResponse(c) /\ Is2xx(c)
       /\ IF AnswersWithFixedResponse(c)
          THEN calls[c].outcome.value.status = calls[c].response.status
          ELSE /\ BodyIsJson(c)
               /\ calls[c].outcome.value = calls[c].response.body.json
  /\ (calls[c].outcome.kind = "rejected"
        /\ IsSdkError(calls[c].outcome.error)) =>
       /\ HasResponse(c) /\ ~Is2xx(c) /\ BodyIsJson(c)
       /\ calls[c].outcome.error.status = calls[c].response.status
       /\ calls[c].outcome.error.message = calls[c].response.body.json.message
  /\ (calls[c].outcome.kind = "rejected"
        /\ ~IsSdkError(calls[c].outcome.error)) =>
       \/ TransportEvents(c)[2] = {calls[c].outcome.error}
       \/ HasResponse(c) /\ ~BodyIsJson(c)

(***************************************************************************)
(* C8: calls in flight at once are independent: calls with the same method *)
(* and arguments issue the same request, each one its own; calls of the    *)
(* same method to which the transport did the same end the same way; and   *)
(* the outcome of every call is drawn from the response to its own         *)
(* request, never from that of another call.                               *)
(***************************************************************************)
C8_CallsIndependent ==
  /\ \A c \in Slots : Issued(c) => calls[c].sent = 1
  /\ \A c \in Slots : Done(c) => OutcomeFromOwnResponse(c)
  /\ \A c, d \in Slots :
       /\ (Issued(c) /\ Issued(d) /\ calls[c].api = calls[d].api
             /\ calls[c].args = calls[d].args) =>
            calls[c].request = calls[d].request
       /\ (Done(c) /\ Done(d) /\ calls[c].api = calls[d].api
             /\ TransportEvents(c) = TransportEvents(d)) =>
            calls[c].outcome = calls[d].outcome

\* two identical calls, answered differently, each with its own outcome
C8_Witness ==
  \E c, d \in Slots :
    /\ c # d /\ Done(c) /\ Done(d)
    /\ calls[c].request = calls[d].request
    /\ calls[c].outcome.kind = "resolved"
    /\ calls[d].outcome.kind = "rejected"
    /\ IsSdkError(calls[d].outcome.error)

PairUsersConfigs ==
  {[usersUrl |-> UrlString("users.example", <<>>, FALSE),
    clientsUrl |-> UrlString("clients.example", <<>>, FALSE)],
   [usersUrl |-> UrlString("gateway.example", <<"api", "v1">>, TRUE),
    clientsUrl |-> UrlString("gateway.example", <<"api", "v1">>, TRUE)],
   [usersUrl |-> UrlString("gateway.example", <<"d1", "users">>, TRUE),
    clientsUrl |-> UrlString("gateway.example", <<>>, FALSE)]}

PairInit ==
  /\ \E config \in PairUsersConfigs : users = UsersConstructor(config)
  /\ journal = JournalConstructor(UrlString("journal.example", <<>>, FALSE))
  /\ calls = [c \in Slots |-> IdleCall]

PairIds ==
  {<<"u1">>, <<"profile">>, <<"search">>, <<"secret">>, <<"clients">>,
   <<"channels">>, <<"users">>, <<"u1", "email">>, <<"..", "users">>}

\* at most two calls are issued
FewIssued == Cardinality({c \in Slots : Issued(c)}) < 2

PairNext ==
  \E c \in Slots :
    /\ FewIssued
    /\ \E api \in UsersMethods :
         \E a \in ArgsOf(api, PairIds, DomainIds, {"tokenA"}, {<<>>}) :
           Invoke(c, api, a)

PairSpec == PairInit /\ [][PairNext]_vars

\* the endpoint a request hits: HTTP method and URL path
Endpoint(c) == <<calls[c].request.method, calls[c].request.url.path>>

(***************************************************************************)
(* C10 as stated: for all argument values, no two distinct Users methods   *)
(* issue a request with the same HTTP method and the same URL path.        *)
(***************************************************************************)
C10_Original_EndpointsDistinct ==
  \A c, d \in Slots :
    (Issued(c) /\ Issued(d) /\ calls[c].api # calls[d].api) =>
      Endpoint(c) # Endpoint(d)

ReservedIds ==
  {<<"profile">>, <<"search">>, <<"secret">>, <<"clients">>, <<"channels">>}

\* an id that is one non-empty path segment of letters, digits, '-' or '_'
PlainId(id) == Len(id) = 1 /\ id[1] \notin {"", ".", ".."}

\* the ids among the arguments of call c
IdsOf(c) ==
  (IF "user" \in DOMAIN calls[c].args /\ "id" \in DOMAIN calls[c].args.user
   THEN {calls[c].args.user.id} ELSE {}) \cup
  (IF "userId" \in DOMAIN calls[c].args
   THEN {calls[c].args.userId} ELSE {}) \cup
  (IF "domainId" \in DOMAIN calls[c].args
   THEN {calls[c].args.domainId} ELSE {})

PlainArgs(c) == \A id \in IdsOf(c) : PlainId(id) /\ id \notin ReservedIds

(***************************************************************************)
(* C10 amended: no two distinct Users methods issue a request with the     *)
(* same HTTP method and the same URL path, provided every id among their   *)
(* arguments is a plain identifier (one non-empty path segment of letters, *)
(* digits, '-' or '_') other than 'profile', 'search', 'secret', 'clients' *)
(* and 'channels'.                                                         *)
(***************************************************************************)
C10_EndpointsDistinctForPlainIds ==
  \A c, d \in Slots :
    (Issued(c) /\ Issued(d) /\ calls[c].api # calls[d].api
       /\ PlainArgs(c) /\ PlainArgs(d)) =>
      Endpoint(c) # Endpoint(d)

C10_Witness ==
  \E c, d \in Slots :
    /\ Issued(c) /\ Issued(d)
    /\ calls[c].api = "Update" /\ calls[d].api = "UpdateUserPassword"
    /\ calls[c].args.user.id = <<"u1">>
    /\ Endpoint(c) = <<"PATCH", <<"users", "u1">>>>
    /\ Endpoint(d) = <<"PATCH", <<"users", "secret">>>>

\* the fixed success text of the methods that answer with a Response object
SuccessTextOf(c) ==
  CASE calls[c].api = "ResetPasswordRequest" ->
         "Email with reset link sent successfully"
    [] calls[c].api = "ResetPassword" -> "Password reset successfully"
    [] calls[c].api = "DeleteUser" -> "User deleted successfully"

(***************************************************************************)
(* C11: ResetPasswordRequest, ResetPassword and DeleteUser resolve, on a   *)
(* 2xx response, with a Response object whose status is the HTTP status    *)
(* actually received and whose message is the method's fixed success text; *)
(* they never resolve when the response is non-2xx.                        *)
(***************************************************************************)
C11_FixedResponseCarriesStatus ==
  \A c \in Slots :
    (Issued(c) /\ AnswersWithFixedResponse(c)) =>
      /\ (HasResponse(c) /\ Is2xx(c)) =>
           /\ Done(c)
           /\ calls[c].outcome =
                [kind |-> "resolved",
                 value |-> [status |-> calls[c].response.status,
                            message |-> SuccessTextOf(c)]]
      /\ (Done(c) /\ calls[c].outcome.kind = "resolved") =>
           (HasResponse(c) /\ Is2xx(c))

C11_Witness ==
  \E c \in Slots :
    /\ Done(c) /\ calls[c].api = "DeleteUser"
    /\ HasResponse(c) /\ calls[c].response.status = 201
    /\ calls[c].outcome.value =
         [status |-> 201, message |-> "User deleted successfully"]

(***************************************************************************)
(* C12: no call resolves with a value when the response status is non-2xx, *)
(* whatever the error body holds (JSON with a message, JSON without one,   *)
(* text that is not JSON): once its body read settles the call is          *)
(* rejected, and the success branch is reached only on a 2xx response.     *)
(***************************************************************************)
C12_NonOkNeverResolves ==
  \A c \in Slots :
    /\ (HasResponse(c) /\ ~Is2xx(c)) =>
         \/ calls[c].pc = "json" /\ calls[c].settled = 0
         \/ Done(c) /\ calls[c].outcome.kind = "rejected"
    /\ (Done(c) /\ calls[c].outcome.kind = "resolved") =>
         (HasResponse(c) /\ Is2xx(c))

C12_Witness ==
  \E c \in Slots :
    /\ Done(c) /\ calls[c].api = "Update"
    /\ HasResponse(c) /\ calls[c].response.status = 404 /\ ~BodyIsJson(c)
    /\ calls[c].outcome.kind = "rejected"

\* the verb the interface gives each Users method
VerbOf(c) ==
  CASE calls[c].api \in {"Create", "CreateToken", "RefreshToken", "Disable",
                         "Enable", "ResetPasswordRequest"} -> "POST"
    [] calls[c].api \in {"Update", "UpdateEmail", "UpdateUsername",
                         "UpdateProfilePicture", "UpdateUserTags",
                         "UpdateUserPassword", "UpdateUserRole"} -> "PATCH"
    [] calls[c].api \in {"User", "UserProfile", "Users", "SearchUsers",
                         "ListUserGroups", "ListUserClients",
                         "ListUserChannels"} -> "GET"
    [] calls[c].api = "ResetPassword" -> "PUT"
    [] calls[c].api = "DeleteUser" -> "DELETE"

IsUsersCall(c) == Issued(c) /\ calls[c].api # "Journal"

(***************************************************************************)
(* C13: each Users method uses a fixed HTTP verb, whatever its arguments   *)
(* (POST, PATCH, GET, PUT or DELETE as listed), and GET and DELETE         *)
(* requests carry no body.                                                 *)
(***************************************************************************)
C13_FixedVerbs ==
  \A c \in Slots :
    IsUsersCall(c) =>
      /\ calls[c].request.method = VerbOf(c)
      /\ calls[c].request.method \in {"GET", "DELETE"} =>
           "body" \notin DOMAIN calls[c].request

C13_Witness ==
  \E c \in Slots :
    /\ IsUsersCall(c) /\ calls[c].api = "DeleteUser"
    /\ calls[c].args.userId = <<"u2">>
    /\ calls[c].request.method = "DELETE"
    /\ "body" \notin DOMAIN calls[c].request

\* the directory of a base URL: its path without the last segment, unless
\* the path ends with '/'
BaseDir(base) ==
  IF base.slash THEN base.segs ELSE SubSeq(base.segs, 1, Len(base.segs) - 1)

ListingKind(c) ==
  CASE calls[c].api = "ListUserGroups" -> "groups"
    [] calls[c].api = "ListUserClients" -> "clients"
    [] calls[c].api = "ListUserChannels" -> "channels"

IsListing(c) ==
  calls[c].api \in {"ListUserGroups", "ListUserClients", "ListUserChannels"}

ListingBase(c) ==
  IF calls[c].api = "ListUserGroups" THEN users.usersUrl ELSE users.clientsUrl

(***************************************************************************)
(* C14: the per-user listing methods build the path                        *)
(* '<domainId>/users/<userId>/<kind>' from the arguments named domainId    *)
(* and userId; ListUserGroups resolves it against usersUrl,                *)
(* ListUserClients and ListUserChannels against clientsUrl; every other    *)
(* Users method resolves against usersUrl.                                 *)
(***************************************************************************)
C14_ListingPathsAndBases ==
  \A c \in Slots :
    IsUsersCall(c) =>
      IF IsListing(c)
      THEN /\ calls[c].request.url.host = ListingBase(c).host
           /\ calls[c].request.url.path =
                BaseDir(ListingBase(c)) \o calls[c].args.domainId
                  \o <<"users">> \o calls[c].args.userId
                  \o <<ListingKind(c)>>
      ELSE /\ calls[c].request.url.host = users.usersUrl.host
           /\ LET path == calls[c].request.url.path
                  dir == BaseDir(users.usersUrl)
              IN  \/ calls[c].api \in {"ResetPasswordRequest", "ResetPassword"}
                       /\ path[1] = "password"
                  \/ /\ Len(path) > Len(dir)
                     /\ SubSeq(path, 1, Len(dir)) = dir
                     /\ path[Len(dir) + 1] = "users"

C14_Witness ==
  \E c \in Slots :
    /\ IsUsersCall(c) /\ calls[c].api = "ListUserClients"
    /\ users.usersUrl.host = "users.example"
    /\ calls[c].request.url.host = "clients.example"
    /\ calls[c].request.url.path = <<"d1", "users", "u2", "clients">>

\* the object sent as the JSON body of call c
BodyObject(c) == calls[c].request.body.json

\* the path of a request that addresses one user: users/<id>/<what>
UserPath(c, what) ==
  BaseDir(users.usersUrl) \o <<"users">> \o calls[c].args.user.id \o <<what>>

\* the body holds the property to, copied from obj.from, and nothing else
HoldsOnly(c, obj, from, to) ==
  IF from \in DOMAIN obj
  THEN DOMAIN BodyObject(c) = {to} /\ BodyObject(c)[to] = obj[from]
  ELSE DOMAIN BodyObject(c) = {}

(***************************************************************************)
(* C15: the single-field updates send only their field: UpdateEmail only   *)
(* 'email', UpdateUsername only 'username' (from user.credentials),        *)
(* UpdateProfilePicture only 'profile_picture', UpdateUserPassword only    *)
(* 'old_secret' and 'new_secret'; no other field of the user object is in  *)
(* the body, and the user's id appears only in the URL path.               *)
(***************************************************************************)
C15_SingleFieldBodies ==
  \A c \in Slots :
    IsUsersCall(c) =>
      /\ calls[c].api = "UpdateEmail" =>
           /\ HoldsOnly(c, calls[c].args.user, "email", "email")
           /\ calls[c].request.url.path = UserPath(c, "email")
      /\ calls[c].api = "UpdateUsername" =>
           /\ IF "credentials" \in DOMAIN calls[c].args.user
              THEN HoldsOnly(c, calls[c].args.user.credentials,
                             "username", "username")
              ELSE DOMAIN BodyObject(c) = {}
           /\ calls[c].request.url.path = UserPath(c, "username")
      /\ calls[c].api = "UpdateProfilePicture" =>
           /\ HoldsOnly(c, calls[c].args.user,
                        "profile_picture", "profile_picture")
           /\ calls[c].request.url.path = UserPath(c, "picture")
      /\ calls[c].api = "UpdateUserPassword" =>
           BodyObject(c) = [old_secret |-> calls[c].args.oldSecret,
                            new_secret |-> calls[c].args.newSecret]
      /\ calls[c].api \in {"UpdateEmail", "UpdateUsername",
                           "UpdateProfilePicture", "UpdateUserPassword"} =>
           /\ DOMAIN BodyObject(c) \cap
                {"id", "credentials", "secret", "role", "tags", "metadata",
                 "first_name"} = {}
           /\ DOMAIN calls[c].request.headers =
                {"ContentType", "Authorization"}
           /\ calls[c].request.url.query = <<>>

C15_Witness ==
  \E c \in Slots :
    /\ IsUsersCall(c) /\ calls[c].api = "UpdateUsername"
    /\ calls[c].args.user.id = <<"u2">>
    /\ calls[c].args.user.credentials.secret = "12345678"
    /\ BodyObject(c) = [username |-> "jd"]

(***************************************************************************)
(* C16: Journal.Journal issues a GET to                                    *)
(* '<domainId>/journal/<entityType>/<entityId>' resolved against           *)
(* journalsUrl, with the headers Content-Type 'application/json' and       *)
(* 'Authorization: Bearer <token>' and no body; the three path segments    *)
(* come in that order for all argument values.                             *)
(***************************************************************************)
C16_JournalRequest ==
  \A c \in Slots :
    (Issued(c) /\ calls[c].api = "Journal") =>
      /\ calls[c].request.method = "GET"
      /\ calls[c].request.headers =
           [ContentType |-> "application/json",
            Authorization |-> <<"Bearer ", calls[c].args.token>>]
      /\ "body" \notin DOMAIN calls[c].request
      /\ calls[c].request.url.host = journal.journalsUrl.host
      /\ calls[c].request.url.path =
           BaseDir(journal.journalsUrl) \o calls[c].args.domainId
             \o <<"journal">> \o calls[c].args.entityType
             \o calls[c].args.entityId

C16_Witness ==
  \E c \in Slots :
    /\ Issued(c) /\ calls[c].api = "Journal"
    /\ calls[c].args.entityType = <<"group">>
    /\ calls[c].args.entityId = <<"u2">>
    /\ calls[c].request.url.path =
         <<"api", "d1", "journal", "group", "u2">>

====
